---- MODULE Spec2Model ----
(***************************************************************************)
(* Model of the Dromo headless import relay (src/main.py).                 *)
(*                                                                         *)
(* Two request flows run as independent asyncio tasks:                     *)
(*   POST /import-file : S3 read -> Dromo create import -> Dromo upload    *)
(*   POST /webhook     : Dromo result URL -> download -> S3 write          *)
(* A handler runs atomically between two awaits; the boto3 calls are       *)
(* blocking and therefore belong to the step that issues them.  The        *)
(* answers of S3 and of the Dromo API are chosen by the environment.       *)
(*                                                                         *)
(* JSON null / Python None is the token NoneVal; a JSON object is a        *)
(* function whose DOMAIN is the set of keys present.                       *)
(***************************************************************************)
EXTENDS Integers, Sequences, FiniteSets, TLC

VARIABLES config, store, imp, wh, nWebhooks, succNotified, putCount

vars == <<config, store, imp, wh, nWebhooks, succNotified, putCount>>

(***************************************************************************)
(* Bounds and value domains                                                *)
(***************************************************************************)
MaxWebhooks == 3

NoneVal == "<None>"
NoObject == "<no object>"

ConfigValues == {NoneVal, "", "set"}
JobIds == {"job1", "job2"}
Bytes == {"b1", "b2"}
Filenames == {"patients.csv"}
SourceKeys == {"in/a.csv", "in/b.csv", "in/none.csv"}
UrlValues == {"", "https://up/1", "https://up/2"}
PointerValues == {"", "https://dl/1"}
StatusCodes == {200, 201, 404, 503}
WebhookStatuses == {"SUCCESSFUL", "FAILED", "PENDING", "successful"}
S3ErrorKinds == {"NoCredentialsError", "BotoCoreError", "ClientError"}

(***************************************************************************)
(* Module-level configuration, src/main.py:20-28                           *)
(***************************************************************************)
DROMO_API_BASE == "https://app.dromo.io/api/v1"
DROMO_SCHEMA_ID == "schema"

\* Python truthiness of an optional string: None and "" are falsy.
Truthy(v) == v \notin {NoneVal, ""}

\* dict.get(key): the value, or None when the key is absent.
Get(d, key) == IF key \in DOMAIN d THEN d[key] ELSE NoneVal

EmptyDict == [k \in {} |-> ""]

\* the number recorded for key k, 0 when none is
Count(f, k) == IF k \in DOMAIN f THEN f[k] ELSE 0

\* All JSON objects over the keys of ks, the value of key k drawn from vals[k].
Dicts(ks, vals) ==
  UNION { {d \in [S -> UNION {vals[k] : k \in ks}] : \A k \in S : d[k] \in vals[k]}
          : S \in SUBSET ks }

(***************************************************************************)
(* Outcomes of external calls                                              *)
(***************************************************************************)
Pending == [kind |-> "pending", code |-> 0, json |-> FALSE, data |-> EmptyDict, content |-> ""]

S3Ok(content) == [kind |-> "ok", code |-> 0, json |-> FALSE, data |-> EmptyDict, content |-> content]

S3Error(kind) == [kind |-> kind, code |-> 0, json |-> FALSE, data |-> EmptyDict, content |-> ""]

\* httpx.RequestError: no response was received
TransportError == [kind |-> "transport", code |-> 0, json |-> FALSE, data |-> EmptyDict, content |-> ""]

HttpResponse(code, json, data, content) ==
  [kind |-> "response", code |-> code, json |-> json, data |-> data, content |-> content]

Call(op, target, body) == [op |-> op, target |-> target, body |-> body, out |-> Pending]

\* the log with the outcome of its last (in-flight) call filled in
Returned(calls, out) == [calls EXCEPT ![Len(calls)].out = out]

\* httpx.Response.raise_for_status: raises unless the status is 2xx
RaiseForStatus(out) == ~(out.code >= 200 /\ out.code < 300)

(***************************************************************************)
(* HTTP responses of this service                                          *)
(***************************************************************************)
Reply(code, detail, import_id, status, message, keys) ==
  [code |-> code, detail |-> detail, import_id |-> import_id,
   status |-> status, message |-> message, keys |-> keys]

NoReply == Reply(0, "", NoneVal, NoneVal, "", {})

\* raise HTTPException(status_code, detail)
HTTPException(code, detail) == Reply(code, detail, NoneVal, NoneVal, "", {})

\* str(HTTPException): "<status_code>: <detail>"
StrHTTPException(code, detail) == ToString(code) \o ": " \o detail

(***************************************************************************)
(* POST /import-file, src/main.py:70-164                                   *)
(***************************************************************************)
ImportIdle ==
  [pc |-> "idle", s3_key |-> "", filename |-> "", file_content |-> "",
   import_id |-> NoneVal, upload_url |-> NoneVal, calls |-> <<>>, response |-> NoReply]

\* if not DROMO_LICENSE_KEY
LicenseMissing(cfg) == ~Truthy(cfg.DROMO_LICENSE_KEY)

\* if not all([AWS_ACCESS_KEY, AWS_SECRET_KEY, AWS_S3_BUCKET])
AwsMissingMutant(cfg) ==
  ~(Truthy(cfg.AWS_ACCESS_KEY) /\ Truthy(cfg.AWS_SECRET_KEY))

AwsMissing(cfg) ==
  ~(Truthy(cfg.AWS_ACCESS_KEY) /\ Truthy(cfg.AWS_SECRET_KEY) /\ Truthy(cfg.AWS_S3_BUCKET))

\* the generic handler: except Exception as e -> 500 "Failed to start import: {e}"
FailedToStart(msg, keys) ==
  Reply(500, "Failed to start import: " \o msg, NoneVal, NoneVal, "", keys)

\* except httpx.HTTPStatusError as e -> the upstream status code is mirrored
DromoApiErrorMutant(out) ==
  HTTPException(500, "Dromo API error: " \o out.content)

DromoApiError(out) ==
  HTTPException(out.code, "Dromo API error: " \o out.content)

\* The inner handlers of the S3 read raise HTTPException(500) inside the outer
\* try, whose generic handler wraps it again; a ClientError (missing key) is
\* not a BotoCoreError and reaches the generic handler directly.
S3ReadFailure(kind) ==
  CASE kind = "NoCredentialsError" ->
         FailedToStart(StrHTTPException(500, "AWS credentials not found"), {})
    [] kind = "BotoCoreError" ->
         FailedToStart(StrHTTPException(500, "Error reading from S3: " \o kind), {})
    [] OTHER -> FailedToStart(kind, {})

\* the answers s3_client.get_object can give for a key
S3GetOutcomes(st, key) ==
  {S3Error(k) : k \in S3ErrorKinds}
    \cup (IF st[key] # NoObject THEN {S3Ok(st[key])} ELSE {})

\* whether the read raised, so that the handler stops
S3ReadRaisedMutant(out) == FALSE

S3ReadRaised(out) == out.kind # "ok"

\* the candidate keys, in probing order
UploadUrlKeys == <<"upload_url", "upload", "uploadUrl", "file_upload_url">>

\* for possible_key in [...]: if possible_key in import_data: ...; break
RECURSIVE ProbeFrom(_, _)
ProbeFrom(import_data, i) ==
  IF i > Len(UploadUrlKeys) THEN NoneVal
  ELSE IF UploadUrlKeys[i] \in DOMAIN import_data THEN import_data[UploadUrlKeys[i]]
  ELSE ProbeFrom(import_data, i + 1)

RECURSIVE ProbeBackFrom(_, _)
ProbeBackFrom(import_data, i) ==
  IF i < 1 THEN NoneVal
  ELSE IF UploadUrlKeys[i] \in DOMAIN import_data THEN import_data[UploadUrlKeys[i]]
  ELSE ProbeBackFrom(import_data, i - 1)

ProbeUploadUrlMutant(import_data) == ProbeBackFrom(import_data, Len(UploadUrlKeys))

ProbeUploadUrl(import_data) == ProbeFrom(import_data, 1)

\* if not upload_url
NoUploadUrl(upload_url) == ~Truthy(upload_url)

\* the success body of /import-file
ImportStartedMutant(import_id) ==
  Reply(200, "", import_id, "SUCCESSFUL", "Import started successfully", {})

ImportStarted(import_id) ==
  Reply(200, "", import_id, "PENDING", "Import started successfully", {})

\* what the Dromo API can answer to the create call
CreateBodies ==
  Dicts({"id"} \cup {UploadUrlKeys[i] : i \in 1..Len(UploadUrlKeys)},
        [k \in {"id"} \cup {UploadUrlKeys[i] : i \in 1..Len(UploadUrlKeys)} |->
           IF k = "id" THEN JobIds ELSE UrlValues])

CreateOutcomes ==
  {TransportError}
    \cup {HttpResponse(c, FALSE, EmptyDict, "err") : c \in StatusCodes}
    \cup {HttpResponse(200, TRUE, d, "") : d \in CreateBodies}

UploadOutcomes ==
  {TransportError} \cup {HttpResponse(c, FALSE, EmptyDict, "err") : c \in StatusCodes}

\* Entry of the handler up to the first await (client.post): the two
\* configuration checks and the blocking S3 read.
ImportFileStart ==
  /\ imp.pc \in {"idle", "done"}
  /\ \E key \in SourceKeys, name \in Filenames :
       LET req == [ImportIdle EXCEPT !.s3_key = key, !.filename = name] IN
       IF LicenseMissing(config)
       THEN imp' = [req EXCEPT !.pc = "done",
                               !.response = HTTPException(500, "Dromo license key not configured")]
       ELSE IF AwsMissing(config)
       THEN imp' = [req EXCEPT !.pc = "done",
                               !.response = HTTPException(500, "AWS credentials or S3 bucket not configured")]
       ELSE \E out \in S3GetOutcomes(store, key) :
              LET calls == <<[Call("s3.get_object", key, "") EXCEPT !.out = out]>> IN
              IF S3ReadRaised(out)
              THEN imp' = [req EXCEPT !.pc = "done", !.calls = calls,
                                      !.response = S3ReadFailure(out.kind)]
              ELSE imp' = [req EXCEPT !.pc = "create", !.file_content = out.content,
                                      !.calls = Append(calls,
                                         Call("dromo.create", DROMO_API_BASE \o "/headless/imports/", name))]
  /\ UNCHANGED <<config, store, wh, nWebhooks, succNotified, putCount>>

\* From the answer of the create call up to the second await (client.put).
ImportFileCreateReturn ==
  /\ imp.pc = "create"
  /\ \E out \in CreateOutcomes :
       LET calls == Returned(imp.calls, out)
           import_data == out.data
           upload_url == ProbeUploadUrl(import_data)
       IN
       IF out.kind = "transport"
       THEN imp' = [imp EXCEPT !.pc = "done", !.calls = calls,
                               !.response = FailedToStart("transport error", {})]
       ELSE IF RaiseForStatus(out)
       THEN imp' = [imp EXCEPT !.pc = "done", !.calls = calls, !.response = DromoApiError(out)]
       ELSE IF ~out.json
       THEN imp' = [imp EXCEPT !.pc = "done", !.calls = calls,
                               !.response = FailedToStart("invalid JSON", {})]
       ELSE IF "id" \notin DOMAIN import_data
       THEN imp' = [imp EXCEPT !.pc = "done", !.calls = calls,
                               !.response = FailedToStart("Missing 'id' in Dromo response", DOMAIN import_data)]
       ELSE IF NoUploadUrl(upload_url)
       THEN imp' = [imp EXCEPT !.pc = "done", !.calls = calls, !.import_id = import_data["id"],
                               !.response = FailedToStart(
                                  "No upload URL found in Dromo response. Available keys: ",
                                  DOMAIN import_data)]
       ELSE imp' = [imp EXCEPT !.pc = "upload", !.import_id = import_data["id"],
                               !.upload_url = upload_url,
                               !.calls = Append(calls, Call("dromo.upload", upload_url, imp.file_content))]
  /\ UNCHANGED <<config, store, wh, nWebhooks, succNotified, putCount>>

\* From the answer of the upload to the response.
ImportFileUploadReturn ==
  /\ imp.pc = "upload"
  /\ \E out \in UploadOutcomes :
       LET calls == Returned(imp.calls, out) IN
       IF out.kind = "transport"
       THEN imp' = [imp EXCEPT !.pc = "done", !.calls = calls,
                               !.response = FailedToStart("transport error", {})]
       ELSE IF RaiseForStatus(out)
       THEN imp' = [imp EXCEPT !.pc = "done", !.calls = calls, !.response = DromoApiError(out)]
       ELSE imp' = [imp EXCEPT !.pc = "done", !.calls = calls,
                               !.response = ImportStarted(imp.import_id)]
  /\ UNCHANGED <<config, store, wh, nWebhooks, succNotified, putCount>>

NextImport == ImportFileStart \/ ImportFileCreateReturn \/ ImportFileUploadReturn

(***************************************************************************)
(* POST /webhook, src/main.py:167-250                                      *)
(***************************************************************************)
WebhookIdle ==
  [pc |-> "idle", hasData |-> FALSE, dataType |-> "object", data |-> EmptyDict,
   import_id |-> NoneVal, status |-> NoneVal, download_url |-> NoneVal,
   calls |-> <<>>, response |-> NoReply]

\* f"processed/{import_id}.csv"
OutputKeyMutant(import_id) == "processed/" \o import_id

OutputKey(import_id) == "processed/" \o import_id \o ".csv"

AllKeys == SourceKeys \cup {OutputKey(j) : j \in JobIds}

\* if not import_id
MissingImportId(import_id) == ~Truthy(import_id)

\* if status == "SUCCESSFUL"
IsSuccessfulMutant(status) == status # "FAILED"

IsSuccessfulOrPendingMutant(status) == status \in {"SUCCESSFUL", "PENDING"}

IsSuccessful(status) == status = "SUCCESSFUL"

\* the acknowledgement
WebhookAck(import_id, status) ==
  Reply(200, "", import_id, status, "Webhook processed successfully", {})

\* except Exception as download_error: logged, then the acknowledgement
DownloadFailedMutant(import_id, status) ==
  HTTPException(500, "Failed to process webhook: download failed")

DownloadFailed(import_id, status) == WebhookAck(import_id, status)

WebhookDataObjects ==
  Dicts({"id", "status"},
        [k \in {"id", "status"} |->
           IF k = "id" THEN JobIds \cup {NoneVal, ""} ELSE WebhookStatuses])

\* the presigned URL request needs the license header: httpx rejects a None value
FetchOutcomes(cfg) ==
  {TransportError}
    \cup (IF cfg.DROMO_LICENSE_KEY = NoneVal THEN {}
          ELSE {HttpResponse(c, FALSE, EmptyDict, "err") : c \in StatusCodes}
                 \cup {HttpResponse(200, TRUE, d, "")
                         : d \in Dicts({"presigned_url"}, [k \in {"presigned_url"} |-> PointerValues])})

DownloadOutcomes ==
  {TransportError}
    \cup {HttpResponse(c, FALSE, EmptyDict, "err") : c \in StatusCodes \ {200}}
    \cup {HttpResponse(200, FALSE, EmptyDict, b) : b \in Bytes}

\* s3_client.put_object: botocore rejects a missing or empty bucket name
S3PutOutcomes(cfg) ==
  {S3Error(k) : k \in S3ErrorKinds}
    \cup (IF Truthy(cfg.AWS_S3_BUCKET) THEN {S3Ok("")} ELSE {})

\* History of the notifications delivered: how often each job id was
\* reported SUCCESSFUL (kept by the environment, not by the handler).
Notified(n, dataType, obj) ==
  IF dataType = "object" /\ Get(obj, "id") \in JobIds /\ Get(obj, "status") = "SUCCESSFUL"
  THEN [n EXCEPT ![obj["id"]] = @ + 1]
  ELSE n

\* Entry of the handler up to the first await (the presigned URL request).
WebhookStart ==
  /\ wh.pc \in {"idle", "done"}
  /\ nWebhooks < MaxWebhooks
  /\ nWebhooks' = nWebhooks + 1
  /\ \E hasData \in BOOLEAN, dataType \in {"object", "null", "string"}, obj \in WebhookDataObjects :
       /\ ~hasData => (dataType = "object" /\ obj = EmptyDict)
       /\ dataType # "object" => obj = EmptyDict
       /\ LET req == [WebhookIdle EXCEPT !.hasData = hasData, !.dataType = dataType, !.data = obj]
              import_id == Get(obj, "id")
              status == Get(obj, "status")
              got == [req EXCEPT !.import_id = import_id, !.status = status]
          IN
          IF dataType # "object"
          THEN wh' = [req EXCEPT !.pc = "done",
                        !.response = HTTPException(500, "Failed to process webhook: no attribute 'get'")]
          ELSE IF MissingImportId(import_id)
          THEN wh' = [got EXCEPT !.pc = "done",
                        !.response = HTTPException(400, "Missing import_id in webhook data.data.id")]
          ELSE IF IsSuccessful(status)
          THEN wh' = [got EXCEPT !.pc = "fetch",
                        !.calls = <<Call("dromo.result_url",
                                         DROMO_API_BASE \o "/upload/" \o import_id \o "/url/", "")>>]
          ELSE wh' = [got EXCEPT !.pc = "done", !.response = WebhookAck(import_id, status)]
       /\ succNotified' = Notified(succNotified, dataType, obj)
  /\ UNCHANGED <<config, store, imp, putCount>>

\* From the answer of the presigned URL request to the second await (download).
WebhookFetchReturn ==
  /\ wh.pc = "fetch"
  /\ \E out \in FetchOutcomes(config) :
       LET calls == Returned(wh.calls, out)
           download_url == Get(out.data, "presigned_url")
       IN
       IF out.kind = "transport" \/ RaiseForStatus(out) \/ ~out.json \/ ~Truthy(download_url)
       THEN wh' = [wh EXCEPT !.pc = "done", !.calls = calls,
                             !.response = DownloadFailed(wh.import_id, wh.status)]
       ELSE wh' = [wh EXCEPT !.pc = "download", !.download_url = download_url,
                             !.calls = Append(calls, Call("download", download_url, ""))]
  /\ UNCHANGED <<config, store, imp, nWebhooks, succNotified, putCount>>

\* From the answer of the download to the response: the blocking S3 write
\* follows without an await.
WebhookDownloadReturn ==
  /\ wh.pc = "download"
  /\ \E out \in DownloadOutcomes :
       LET calls == Returned(wh.calls, out)
           output_key == OutputKey(wh.import_id)
       IN
       IF out.kind = "transport" \/ RaiseForStatus(out)
       THEN /\ wh' = [wh EXCEPT !.pc = "done", !.calls = calls,
                                !.response = DownloadFailed(wh.import_id, wh.status)]
            /\ UNCHANGED <<store, putCount>>
       ELSE \E put \in S3PutOutcomes(config) :
              /\ wh' = [wh EXCEPT !.pc = "done",
                          !.calls = Append(calls,
                             [Call("s3.put_object", output_key, out.content) EXCEPT !.out = put]),
                          !.response = IF put.kind = "ok" THEN WebhookAck(wh.import_id, wh.status)
                                       ELSE DownloadFailed(wh.import_id, wh.status)]
              /\ IF put.kind = "ok"
                 THEN /\ store' = [k \in DOMAIN store \cup {output_key} |->
                                     IF k = output_key THEN out.content ELSE store[k]]
                      /\ putCount' = [k \in DOMAIN putCount \cup {output_key} |->
                                       IF k = output_key THEN Count(putCount, k) + 1 ELSE putCount[k]]
                 ELSE UNCHANGED <<store, putCount>>
  /\ UNCHANGED <<config, imp, nWebhooks, succNotified>>

NextWebhook == WebhookStart \/ WebhookFetchReturn \/ WebhookDownloadReturn

(***************************************************************************)
(* The system                                                              *)
(***************************************************************************)
Init ==
  /\ config \in [{"DROMO_LICENSE_KEY", "AWS_ACCESS_KEY", "AWS_SECRET_KEY", "AWS_S3_BUCKET"}
                   -> ConfigValues]
  /\ store = [k \in AllKeys |->
                CASE k = "in/a.csv" -> "b1" [] k = "in/b.csv" -> "b2" [] OTHER -> NoObject]
  /\ imp = ImportIdle
  /\ wh = WebhookIdle
  /\ nWebhooks = 0
  /\ succNotified = [j \in JobIds |-> 0]
  /\ putCount = [k \in AllKeys |-> 0]

Next == NextImport \/ NextWebhook

Spec == Init /\ [][Next]_vars

SpecImport == Init /\ [][NextImport]_vars

SpecWebhook == Init /\ [][NextWebhook]_vars

(***************************************************************************)
(* Properties                                                              *)
(***************************************************************************)
\* a 2xx response was received for the call
Succeeded2xx(out) == out.kind = "response" /\ out.code \in 200..299

\* the value is absent, null or empty
Unset(v) == v = NoneVal \/ v = ""

ImportOps == <<"s3.get_object", "dromo.create", "dromo.upload">>

WebhookOps == <<"dromo.result_url", "download", "s3.put_object">>

ExpectedKey == [j \in JobIds |-> IF j = "job1" THEN "processed/job1.csv" ELSE "processed/job2.csv"]

\* C1: when the read, the create call and the upload of a POST /import-file
\* all succeed, the response is a success carrying the id of the create
\* response and status "PENDING", and the bytes uploaded are the bytes read
\* from the object store for the requested key.
C1_ImportSuccess ==
  (imp.pc = "done" /\ Len(imp.calls) = 3 /\ Succeeded2xx(imp.calls[3].out))
    => /\ imp.response.code = 200
       /\ imp.response.import_id = imp.calls[2].out.data["id"]
       /\ imp.response.status = "PENDING"
       /\ imp.calls[1].target = imp.s3_key
       /\ imp.calls[1].out.content = store[imp.s3_key]
       /\ imp.calls[3].body = imp.calls[1].out.content

C1_Witness ==
  /\ imp.pc = "done" /\ Len(imp.calls) = 3 /\ Succeeded2xx(imp.calls[3].out)
  /\ imp.s3_key = "in/b.csv" /\ imp.calls[3].body = "b2"
  /\ imp.response.import_id = "job2"

\* C5: a failed POST /import-file has status 500 when the cause is the
\* configuration or the object store, and the upstream status code when the
\* cause is an error status of the create call or of the upload call.
C5_ErrorStatus ==
  (imp.pc = "done" /\ imp.response.code # 200)
    => /\ Len(imp.calls) = 0 => imp.response.code = 500
       /\ (Len(imp.calls) = 1 /\ imp.calls[1].out.kind # "ok") => imp.response.code = 500
       /\ \A i \in 2..Len(imp.calls) :
            (imp.calls[i].out.kind = "response" /\ ~Succeeded2xx(imp.calls[i].out))
              => imp.response.code = imp.calls[i].out.code

C5_Witness ==
  /\ imp.pc = "done" /\ Len(imp.calls) = 3
  /\ imp.calls[3].out.kind = "response" /\ imp.calls[3].out.code = 404
  /\ imp.response.code = 404

\* C6: within one POST /import-file the external steps are read, create,
\* upload in this order, each at most once, and a step is attempted only if
\* every earlier one succeeded.
C6_StepOrder ==
  /\ Len(imp.calls) <= 3
  /\ \A i \in 1..Len(imp.calls) : imp.calls[i].op = ImportOps[i]
  /\ Len(imp.calls) >= 2 => imp.calls[1].out.kind = "ok"
  /\ Len(imp.calls) >= 3 =>
       /\ Succeeded2xx(imp.calls[2].out) /\ imp.calls[2].out.json
       /\ "id" \in DOMAIN imp.calls[2].out.data
       /\ \E i \in 1..Len(UploadUrlKeys) : UploadUrlKeys[i] \in DOMAIN imp.calls[2].out.data

C6_Witness ==
  /\ imp.pc = "done" /\ Len(imp.calls) = 1
  /\ imp.calls[1].out.kind = "ClientError" /\ imp.s3_key = "in/none.csv"

\* C7: when the license key or one of the access key, the secret and the
\* bucket name is not configured, POST /import-file fails before any
\* external call.
C7_ConfigFirst ==
  (imp.pc # "idle" /\ \E name \in DOMAIN config : Unset(config[name]))
    => /\ imp.pc = "done"
       /\ imp.response.code = 500
       /\ imp.calls = <<>>

C7_Witness ==
  /\ imp.pc = "done" /\ imp.calls = <<>> /\ imp.response.code = 500
  /\ config.AWS_S3_BUCKET = NoneVal
  /\ \A name \in DOMAIN config \ {"AWS_S3_BUCKET"} : ~Unset(config[name])

\* the create call of the request was answered with a job id
CreateAnswered ==
  /\ Len(imp.calls) >= 2
  /\ Succeeded2xx(imp.calls[2].out) /\ imp.calls[2].out.json
  /\ "id" \in DOMAIN imp.calls[2].out.data

PresentUrlKeys(d) == {i \in 1..Len(UploadUrlKeys) : UploadUrlKeys[i] \in DOMAIN d}

\* the value under the first candidate key present, None when there is none
FirstPresentValue(d) ==
  IF PresentUrlKeys(d) = {} THEN NoneVal
  ELSE d[UploadUrlKeys[CHOOSE i \in PresentUrlKeys(d) : \A j \in PresentUrlKeys(d) : i <= j]]

FailedForLackOfUploadUrl ==
  /\ imp.pc = "done" /\ Len(imp.calls) = 2
  /\ imp.response.code = 500
  /\ imp.response.detail
       = "Failed to start import: No upload URL found in Dromo response. Available keys: "
  /\ imp.response.keys = DOMAIN imp.calls[2].out.data

\* C9 as stated: the upload goes to the value under the first candidate key
\* present, and the request fails for lack of an upload target exactly when
\* no candidate key is present.
C9_Original ==
  CreateAnswered =>
    LET d == imp.calls[2].out.data IN
    /\ PresentUrlKeys(d) # {} =>
         (Len(imp.calls) = 3 /\ imp.calls[3].target = FirstPresentValue(d))
    /\ FailedForLackOfUploadUrl <=> PresentUrlKeys(d) = {}

\* C9 amended: the upload goes to the value under the first candidate key
\* present when that value is not empty, and the request fails for lack of
\* an upload target exactly when no candidate key is present or the first
\* one present holds an empty value.
C9_FirstPresentKey ==
  CreateAnswered =>
    LET d == imp.calls[2].out.data IN
    /\ ~Unset(FirstPresentValue(d)) =>
         (Len(imp.calls) = 3 /\ imp.calls[3].target = FirstPresentValue(d))
    /\ FailedForLackOfUploadUrl <=> Unset(FirstPresentValue(d))

C9_Witness ==
  /\ CreateAnswered /\ FailedForLackOfUploadUrl
  /\ DOMAIN imp.calls[2].out.data = {"id", "upload", "file_upload_url"}
  /\ imp.calls[2].out.data["upload"] = ""
  /\ imp.calls[2].out.data["file_upload_url"] = "https://up/1"

\* C2: a webhook for job id J with status SUCCESSFUL whose result pointer
\* fetch and download succeed performs exactly one object-store write, to
\* processed/J.csv with the downloaded bytes, and returns 200 with J and
\* SUCCESSFUL.
C2_WebhookStoresResult ==
  (wh.pc = "done" /\ Len(wh.calls) >= 2 /\ Succeeded2xx(wh.calls[2].out))
    => /\ Get(wh.data, "status") = "SUCCESSFUL"
       /\ Cardinality({i \in 1..Len(wh.calls) : wh.calls[i].op = "s3.put_object"}) = 1
       /\ wh.calls[3].op = "s3.put_object"
       /\ wh.calls[3].target = ExpectedKey[wh.data["id"]]
       /\ wh.calls[3].body = wh.calls[2].out.content
       /\ wh.calls[3].out.kind = "ok" => store[ExpectedKey[wh.data["id"]]] = wh.calls[2].out.content
       /\ wh.response.code = 200
       /\ wh.response.import_id = wh.data["id"]
       /\ wh.response.status = "SUCCESSFUL"

C2_Witness ==
  /\ wh.pc = "done" /\ Len(wh.calls) = 3 /\ wh.calls[3].out.kind = "ok"
  /\ wh.data["id"] = "job2" /\ wh.calls[3].body = "b2"
  /\ store["processed/job2.csv"] = "b2"

\* the job id of the notification is absent, null or empty
JobIdMissing == Unset(Get(wh.data, "id"))

Acknowledged ==
  /\ wh.response.code = 200
  /\ wh.response.import_id = Get(wh.data, "id")
  /\ wh.response.status = Get(wh.data, "status")

\* C3: POST /webhook returns an error status if and only if the job id is
\* missing, then with status 400 and without any external call; every other
\* body is acknowledged with its job id and status.  (Violated by a data
\* field that is not an object: data.get raises and the answer is a 500.)
C3_ErrorIffJobIdMissing ==
  wh.pc = "done" =>
    /\ wh.response.code # 200 <=> JobIdMissing
    /\ JobIdMissing => (wh.response.code = 400 /\ wh.calls = <<>>)
    /\ ~JobIdMissing => Acknowledged

\* the call did not deliver what the next step needs
StepFailed(call) ==
  CASE call.op = "dromo.result_url" ->
         ~(Succeeded2xx(call.out) /\ call.out.json /\ ~Unset(Get(call.out.data, "presigned_url")))
    [] call.op = "download" -> ~Succeeded2xx(call.out)
    [] OTHER -> call.out.kind # "ok"

\* C4: a failure of any step of the result branch of a SUCCESSFUL webhook
\* is swallowed: the response is the 200 acknowledgement, and no step after
\* the failing one is executed.
C4_FailureSwallowed ==
  (wh.pc = "done" /\ Len(wh.calls) >= 1)
    => /\ Acknowledged
       /\ wh.response.status = "SUCCESSFUL"
       /\ Len(wh.calls) <= 3
       /\ \A i \in 1..Len(wh.calls) : wh.calls[i].op = WebhookOps[i]
       /\ \A i \in 1..(Len(wh.calls) - 1) : ~StepFailed(wh.calls[i])

C4_Witness ==
  /\ wh.pc = "done" /\ Len(wh.calls) = 2
  /\ wh.calls[2].out.kind = "response" /\ wh.calls[2].out.code = 503
  /\ wh.response.code = 200

\* C8 as stated: the key processed/{job_id}.csv is written at most once.
C8_Original ==
  \A k \in DOMAIN putCount : putCount[k] <= 1

\* C8 amended: the key processed/{job_id}.csv is written at most once per
\* notification reporting the job id SUCCESSFUL (a repeated notification
\* overwrites it), and no other key is written.
C8_OneWritePerNotification ==
  /\ \A j \in JobIds : Count(putCount, ExpectedKey[j]) <= succNotified[j]
  /\ \A k \in DOMAIN putCount : k \notin {ExpectedKey[j] : j \in JobIds} => putCount[k] = 0

C8_Witness ==
  /\ putCount["processed/job1.csv"] = 2
  /\ succNotified["job1"] = 2

\* C10: a webhook carrying a job id and a status other than SUCCESSFUL makes
\* no external call and leaves the object store unchanged; its only effect
\* is the acknowledgement of the job id and status.
C10_OtherStatusNoEffect ==
  [][(nWebhooks' # nWebhooks /\ wh'.dataType = "object" /\ ~Unset(Get(wh'.data, "id"))
        /\ Get(wh'.data, "status") # "SUCCESSFUL")
       => /\ wh'.pc = "done"
          /\ wh'.calls = <<>>
          /\ store' = store
          /\ putCount' = putCount
          /\ wh'.response.code = 200
          /\ wh'.response.import_id = wh'.data["id"]
          /\ wh'.response.status = Get(wh'.data, "status")]_vars

C10_Witness ==
  /\ wh.pc = "done" /\ wh.calls = <<>> /\ wh.response.code = 200
  /\ wh.data = [id |-> "job1", status |-> "FAILED"]

====
